---- MODULE Spec2Model ----
(***************************************************************************)
(* Prism document Q&A backend: the chunker (ingestion/chunker.py), the     *)
(* keyword retriever and the in-memory document store                      *)
(* (app/services/qa_service.py) and the background ingestion task          *)
(* (app/main.py).  Text is a sequence of one-character strings.            *)
(***************************************************************************)
EXTENDS Integers, Sequences, FiniteSets, TLC

VARIABLES
    pc,                 \* which operation of the component under check has run
    chunker,            \* DocumentChunker instance: chunk_size, chunk_overlap, tokenizer
    pages,              \* argument of chunk_document_pages
    all_chunks,         \* value returned by chunk_document_pages
    runs,               \* per page, the chunk_text loop's final state and its closings
    document_chunks,    \* DocumentQAService.document_chunks (insertion-ordered dict)
    document_metadata,  \* DocumentQAService.document_metadata (insertion-ordered dict)
    query,              \* arguments of _find_relevant_chunks
    result,             \* value returned by _find_relevant_chunks
    processed,          \* data/processed/<file_id>.json, by file_id
    jobs,               \* background tasks process_document_async, by job number
    reader,             \* the request handler running on the event loop
    progress            \* progress_service records, by processing id (the job number)

vars == <<pc, chunker, pages, all_chunks, runs, document_chunks, document_metadata,
          query, result, processed, jobs, reader, progress>>

chunkVars == <<pages, all_chunks, runs>>

storeVars == <<document_chunks, document_metadata, processed>>

queryVars == <<query, result>>

taskVars == <<jobs, reader, progress>>

(***************************************************************************)
(* Bounds of the model.                                                    *)
(***************************************************************************)
MaxChunkSize == 4
MaxOverlap == 2
MaxSentences == 2
MaxPages == 2
MaxLimit == 2
MaxJobs == 2

(***************************************************************************)
(* Python string primitives.                                               *)
(***************************************************************************)
Min(a, b) == IF a < b THEN a ELSE b

\* characters matched by \s
IsSpace(c) == c \in {" ", "\n"}

\* characters matched by [.!?]
IsTerminal(c) == c \in {".", "!", "?"}

\* characters matched by \w (the letters of the model's alphabets)
IsLetter(c) == c \in {"a", "b", "c", "A", "B", "C"}

\* characters kept by [^\w\s\.,!?\-\(\)\[\]"':]
IsAllowed(c) ==
    \/ IsLetter(c)
    \/ IsSpace(c)
    \/ c \in {".", ",", "!", "?", "-", "(", ")", "[", "]", "\"", "'", ":"}

\* str.lower on one character
LowerChar(c) ==
    CASE c = "A" -> "a"
      [] c = "B" -> "b"
      [] c = "C" -> "c"
      [] OTHER -> c

\* str.lower
Lower(s) == [i \in 1..Len(s) |-> LowerChar(s[i])]

\* s[i:] with 1-based i
Drop(s, i) == SubSeq(s, i, Len(s))

RECURSIVE LStrip(_)
LStrip(s) == IF s # <<>> /\ IsSpace(Head(s)) THEN LStrip(Tail(s)) ELSE s

RECURSIVE RStrip(_)
RStrip(s) ==
    IF s # <<>> /\ IsSpace(s[Len(s)]) THEN RStrip(SubSeq(s, 1, Len(s) - 1)) ELSE s

\* str.strip
Strip(s) == RStrip(LStrip(s))

\* membership of a character in a regex character class
InClass(c, class) ==
    CASE class = "space" -> IsSpace(c)
      [] class = "nonspace" -> ~IsSpace(c)
      [] class = "terminal" -> IsTerminal(c)
      [] class = "letter" -> IsLetter(c)

\* length of the longest prefix of s whose characters all lie in class
RECURSIVE RunLen(_, _)
RunLen(s, class) ==
    IF s # <<>> /\ InClass(Head(s), class) THEN 1 + RunLen(Tail(s), class) ELSE 0

\* str.split(): the maximal runs of non-whitespace characters
RECURSIVE Split(_)
Split(s) ==
    LET t == LStrip(s)
        n == RunLen(t, "nonspace")
    IN  IF t = <<>> THEN <<>> ELSE <<SubSeq(t, 1, n)>> \o Split(Drop(t, n + 1))

\* sep.join(parts)
RECURSIVE Join(_, _)
Join(parts, sep) ==
    IF parts = <<>> THEN <<>>
    ELSE IF Len(parts) = 1 THEN parts[1]
    ELSE parts[1] \o sep \o Join(Tail(parts), sep)

\* needle in haystack (substring test on str)
Contains(haystack, needle) ==
    \E i \in 0..(Len(haystack) - Len(needle)) :
        SubSeq(haystack, i + 1, i + Len(needle)) = needle

\* seq[-n:] of Python: the last n elements, and the whole sequence when n = 0
LastSlice(seq, n) ==
    IF n = 0 \/ n >= Len(seq) THEN seq ELSE SubSeq(seq, Len(seq) - n + 1, Len(seq))

\* seq[:n] of Python for n >= 0
FirstSlice(seq, n) == SubSeq(seq, 1, Min(n, Len(seq)))

(***************************************************************************)
(* The tokenizer behind self.tokenizer: a token is a run of letters with   *)
(* at most one leading space, or any other single character; decode        *)
(* concatenates the tokens.                                                *)
(***************************************************************************)
RECURSIVE encode(_)
encode(text) ==
    IF text = <<>> THEN <<>>
    ELSE IF IsLetter(Head(text)) THEN
        LET n == RunLen(text, "letter")
        IN  <<SubSeq(text, 1, n)>> \o encode(Drop(text, n + 1))
    ELSE IF Head(text) = " " /\ Len(text) > 1 /\ IsLetter(text[2]) THEN
        LET n == 1 + RunLen(Tail(text), "letter")
        IN  <<SubSeq(text, 1, n)>> \o encode(Drop(text, n + 1))
    ELSE <<SubSeq(text, 1, 1)>> \o encode(Tail(text))

RECURSIVE decode(_)
decode(tokens) == IF tokens = <<>> THEN <<>> ELSE Head(tokens) \o decode(Tail(tokens))

(***************************************************************************)
(* DocumentChunker                                                         *)
(***************************************************************************)
\* __init__: stores the two parameters unchecked; tokenizer is None when
\* tiktoken.encoding_for_model raised
DocumentChunker(chunk_size, chunk_overlap, tokenizer) ==
    [chunk_size |-> chunk_size, chunk_overlap |-> chunk_overlap, tokenizer |-> tokenizer]

\* int(n * 1.33)
ApproxTokens(n) == (n * 133) \div 100

\* int(max_tokens * 0.75)
ApproxWords(max_tokens) == (max_tokens * 3) \div 4

count_tokens(self, text) ==
    IF self.tokenizer THEN Len(encode(text)) ELSE ApproxTokens(Len(Split(text)))

\* re.sub(r'\s+', ' ', text)
RECURSIVE CollapseSpace(_)
CollapseSpace(text) ==
    IF text = <<>> THEN <<>>
    ELSE IF IsSpace(Head(text)) THEN <<" ">> \o CollapseSpace(LStrip(text))
    ELSE <<Head(text)>> \o CollapseSpace(Tail(text))

\* re.sub(r'[^\w\s\.,!?\-\(\)\[\]"\':]', ' ', text)
ReplaceSpecial(text) == [i \in 1..Len(text) |-> IF IsAllowed(text[i]) THEN text[i] ELSE " "]

_clean_text(text) == Strip(ReplaceSpecial(CollapseSpace(text)))

\* re.split(r'[.!?]+\s+', text): a separator is a maximal run of terminal
\* punctuation followed by a maximal run of whitespace
RECURSIVE ReSplit(_, _)
ReSplit(text, piece) ==
    IF text = <<>> THEN <<piece>>
    ELSE LET p == RunLen(text, "terminal")
             w == RunLen(Drop(text, p + 1), "space")
         IN  IF p > 0 /\ w > 0 THEN <<piece>> \o ReSplit(Drop(text, p + w + 1), <<>>)
             ELSE IF p > 0 THEN ReSplit(Drop(text, p + 1), piece \o SubSeq(text, 1, p))
             ELSE ReSplit(Tail(text), Append(piece, Head(text)))

NonEmptyText(s) == s # <<>>

_split_into_sentences(text) ==
    SelectSeq([i \in 1..Len(ReSplit(text, <<>>)) |-> Strip(ReSplit(text, <<>>)[i])],
              NonEmptyText)

_get_overlap_text(self, text, max_tokens) ==
    IF ~self.tokenizer THEN
        LET words == Split(text)
            overlap_words == ApproxWords(max_tokens)
        IN  IF Len(words) > overlap_words
            THEN Join(LastSlice(words, overlap_words), <<" ">>)
            ELSE text
    ELSE
        LET tokens == encode(text)
        IN  IF Len(tokens) <= max_tokens THEN text
            ELSE decode(LastSlice(tokens, max_tokens))

\* the dictionary appended to chunks
NewChunk(file_id, chunk_id, current_chunk, current_tokens) ==
    [file_id |-> file_id, chunk_id |-> chunk_id, text |-> Strip(current_chunk),
     token_count |-> current_tokens]

\* local state of chunk_text before its loop; closes logs each closing
ChunkLoopInit ==
    [chunks |-> <<>>, current_chunk |-> <<>>, current_tokens |-> 0, chunk_id |-> 0,
     closes |-> <<>>]

\* one iteration in which a closing restarts the buffer from the overlap alone
ChunkLoopStepOverlapOnly(self, st, sentence, file_id) ==
    LET sentence_tokens == count_tokens(self, sentence)
    IN  IF st.current_tokens + sentence_tokens > self.chunk_size /\ st.current_chunk # <<>>
        THEN LET overlap_text == _get_overlap_text(self, st.current_chunk, self.chunk_overlap)
             IN  [chunks |-> Append(st.chunks,
                                    NewChunk(file_id, st.chunk_id, st.current_chunk,
                                             st.current_tokens)),
                  current_chunk |-> overlap_text,
                  current_tokens |-> count_tokens(self, overlap_text),
                  chunk_id |-> st.chunk_id + 1,
                  closes |-> Append(st.closes,
                                    [closed |-> st.current_chunk, overlap |-> overlap_text,
                                     sentence |-> sentence, buffer |-> overlap_text])]
        ELSE [st EXCEPT
                 !.current_chunk = IF st.current_chunk # <<>>
                                   THEN st.current_chunk \o <<" ">> \o sentence
                                   ELSE sentence,
                 !.current_tokens = st.current_tokens + sentence_tokens]

\* one iteration of the loop over sentences
ChunkLoopStep(self, st, sentence, file_id) ==
    LET sentence_tokens == count_tokens(self, sentence)
    IN  IF st.current_tokens + sentence_tokens > self.chunk_size /\ st.current_chunk # <<>>
        THEN LET overlap_text == _get_overlap_text(self, st.current_chunk, self.chunk_overlap)
                 next_chunk == overlap_text \o <<" ">> \o sentence
             IN  [chunks |-> Append(st.chunks,
                                    NewChunk(file_id, st.chunk_id, st.current_chunk,
                                             st.current_tokens)),
                  current_chunk |-> next_chunk,
                  current_tokens |-> count_tokens(self, next_chunk),
                  chunk_id |-> st.chunk_id + 1,
                  closes |-> Append(st.closes,
                                    [closed |-> st.current_chunk, overlap |-> overlap_text,
                                     sentence |-> sentence, buffer |-> next_chunk])]
        ELSE [st EXCEPT
                 !.current_chunk = IF st.current_chunk # <<>>
                                   THEN st.current_chunk \o <<" ">> \o sentence
                                   ELSE sentence,
                 !.current_tokens = st.current_tokens + sentence_tokens]

RECURSIVE ChunkLoop(_, _, _, _)
ChunkLoop(self, st, sentences, file_id) ==
    IF sentences = <<>> THEN st
    ELSE ChunkLoop(self, ChunkLoopStep(self, st, Head(sentences), file_id),
                   Tail(sentences), file_id)

\* the loop's state returned without the final chunk
FinalChunkForgotten(st, file_id) == st

\* "Add final chunk if it has content"
FinalChunk(st, file_id) ==
    IF Strip(st.current_chunk) # <<>>
    THEN [st EXCEPT !.chunks = Append(st.chunks,
                                      NewChunk(file_id, st.chunk_id, st.current_chunk,
                                               st.current_tokens))]
    ELSE st

\* chunk_text with the loop's final state kept
ChunkTextRun(self, text, file_id) ==
    FinalChunk(ChunkLoop(self, ChunkLoopInit, _split_into_sentences(_clean_text(text)),
                         file_id),
               file_id)

chunk_text(self, text, file_id) == ChunkTextRun(self, text, file_id).chunks

\* "Add page information to chunks"
TagPage(chunk, page) ==
    [file_id |-> chunk.file_id, chunk_id |-> chunk.chunk_id, text |-> chunk.text,
     token_count |-> chunk.token_count, page |-> page.page, source_page |-> page.page]

PageChunks(self, page) ==
    LET page_chunks == chunk_text(self, page.text, page.file_id)
    IN  [i \in 1..Len(page_chunks) |-> TagPage(page_chunks[i], page)]

RECURSIVE chunk_document_pages(_, _)
chunk_document_pages(self, pgs) ==
    IF pgs = <<>> THEN <<>>
    ELSE PageChunks(self, Head(pgs)) \o chunk_document_pages(self, Tail(pgs))

(***************************************************************************)
(* Inputs of the chunker: page texts built from whole sentences, and short *)
(* texts that exercise the normalisation.                                  *)
(***************************************************************************)
ChunkSizes == 1..MaxChunkSize

Overlaps == 0..MaxOverlap

SentencePool == {<<"a">>, <<"b">>, <<"a", " ", "b">>}

SentenceLists == UNION {[1..n -> SentencePool] : n \in 0..MaxSentences}

\* sentences separated by ". ", the last one closed by "."
ProseTexts == {IF sl = <<>> THEN <<>> ELSE Join(sl, <<".", " ">>) \o <<".">> : sl \in SentenceLists}

RawTexts ==
    {<<" ">>, <<"#">>, <<"\n", " ">>, <<"a">>, <<"a", "\n", " ", "b">>,
     <<"a", "#", "b">>, <<"a", ".", "#", "b">>, <<".", " ", ".">>,
     <<"a", "!", "?", " ", " ", "b">>, <<"a", ".", "b">>}

Texts == ProseTexts \cup RawTexts

\* texts of the pages after the first
FollowTexts == {<<>>, <<"b", ".">>, <<"a", ".", " ", "b", ".">>}

TextLists ==
    {<<>>} \cup
    {<<t>> \o rest : t \in Texts,
                     rest \in UNION {[1..n -> FollowTexts] : n \in 0..(MaxPages - 1)}}

\* parse_pdf: one record per page, numbered from 0, all with the file_id it was given
ParsedPages(texts, file_id) ==
    [i \in 1..Len(texts) |-> [file_id |-> file_id, page |-> i - 1, text |-> texts[i]]]

(***************************************************************************)
(* The chunker on its own: construct an instance, chunk one document.      *)
(***************************************************************************)
NoChunker == [chunk_size |-> 0, chunk_overlap |-> 0, tokenizer |-> FALSE]

NoQuery == [question |-> <<>>, file_id |-> "None", max_chunks |-> 0]

\* the event loop between two requests
Idle == [pc |-> "idle"]

InitChunk ==
    /\ pc = "new"
    /\ chunker = NoChunker
    /\ pages = <<>>
    /\ all_chunks = <<>>
    /\ runs = <<>>
    /\ document_chunks = <<>>
    /\ document_metadata = <<>>
    /\ query = NoQuery
    /\ result = <<>>
    /\ processed = <<>>
    /\ jobs = <<>>
    /\ reader = Idle
    /\ progress = <<>>

Construct(chunk_size, chunk_overlap, tokenizer) ==
    /\ pc = "new"
    /\ pc' = "ready"
    /\ chunker' = DocumentChunker(chunk_size, chunk_overlap, tokenizer)
    /\ UNCHANGED <<chunkVars, storeVars, queryVars, taskVars>>

ChunkDocumentPages(pgs) ==
    /\ pc = "ready"
    /\ pc' = "chunked"
    /\ pages' = pgs
    /\ all_chunks' = chunk_document_pages(chunker, pgs)
    /\ runs' = [i \in 1..Len(pgs) |-> ChunkTextRun(chunker, pgs[i].text, pgs[i].file_id)]
    /\ UNCHANGED <<chunker, storeVars, queryVars, taskVars>>

NextChunk ==
    \/ \E cs \in ChunkSizes, ov \in Overlaps, tok \in BOOLEAN : Construct(cs, ov, tok)
    \/ \E texts \in TextLists :
           \* the pages are parsed anew for every call on the constructed chunker
           /\ pc = "ready"
           /\ ChunkDocumentPages(ParsedPages(texts, 1))

SpecChunk == InitChunk /\ [][NextChunk]_vars

(***************************************************************************)
(* Properties of the chunker (checked under SpecChunk).                    *)
(***************************************************************************)
\* the sentences chunk_text iterates over for page i
SentencesOf(i) == _split_into_sentences(_clean_text(pages[i].text))

RECURSIVE SumTokens(_, _)
SumTokens(self, sentences) ==
    IF sentences = <<>> THEN 0
    ELSE count_tokens(self, Head(sentences)) + SumTokens(self, Tail(sentences))

\* the last m elements of seq, none when m = 0
Trailing(seq, m) == SubSeq(seq, Len(seq) - m + 1, Len(seq))

\* a closing took the trailing min(chunk_overlap, tokens) tokens of the closed chunk
OverlapAsSpecified(self, close) ==
    /\ close.buffer = close.overlap \o <<" ">> \o close.sentence
    /\ self.tokenizer =>
           close.overlap = decode(Trailing(encode(close.closed),
                                           Min(self.chunk_overlap, Len(encode(close.closed)))))
    /\ Split(close.overlap) = Split(close.closed) =>
           count_tokens(self, close.closed) <= self.chunk_overlap

\* C5: the k-th chunk of a document (0-based) has chunk_id = k, so chunk ids are
\* contiguous from 0 over the whole document and never repeat.
C5_ChunkIdsContiguous ==
    pc = "chunked" => \A k \in 1..Len(all_chunks) : all_chunks[k].chunk_id = k - 1

\* C6: every emitted chunk has token_count <= chunk_size unless its text is a
\* single sentence that alone exceeds chunk_size.  Stated for configurations
\* with chunk_overlap < chunk_size and runs whose overlaps were all taken as
\* specified, so that a violation is the chunker's own.
C6_TokenCountBounded ==
    (pc = "chunked" /\ chunker.chunk_overlap < chunker.chunk_size) =>
        \A i \in 1..Len(runs) :
            (\A j \in 1..Len(runs[i].closes) : OverlapAsSpecified(chunker, runs[i].closes[j])) =>
                \A k \in 1..Len(runs[i].chunks) :
                    LET c == runs[i].chunks[k]
                    IN  \/ c.token_count <= chunker.chunk_size
                        \/ \E n \in 1..Len(SentencesOf(i)) :
                               /\ SentencesOf(i)[n] = c.text
                               /\ count_tokens(chunker, c.text) > chunker.chunk_size

\* C7: at every closing the next buffer is the trailing min(chunk_overlap,
\* tokens of the closed chunk) tokens of the closed chunk, a space and the new
\* sentence; the whole closed chunk is reused only when it has at most
\* chunk_overlap tokens.
C7_OverlapSuffix ==
    pc = "chunked" =>
        \A i \in 1..Len(runs) :
            \A j \in 1..Len(runs[i].closes) : OverlapAsSpecified(chunker, runs[i].closes[j])

\* C8: a chunker whose chunk_overlap is not below chunk_size is rejected and
\* produces no chunks.
C8_OverlapValidated ==
    (pc # "new" /\ chunker.chunk_overlap >= chunker.chunk_size) =>
        /\ chunker = NoChunker
        /\ all_chunks = <<>>

\* pages whose normalised text is not empty and whose sentences total at most chunk_size
UnderLimit(i) ==
    /\ _clean_text(pages[i].text) # <<>>
    /\ SumTokens(chunker, SentencesOf(i)) <= chunker.chunk_size

EmptyPage(i) == _clean_text(pages[i].text) = <<>>

\* C9: a text that is empty after normalisation yields no chunk; a non-empty
\* text whose sentences total at most chunk_size yields exactly one chunk, with
\* no overlap; chunk_document_pages yields one chunk per such page, tagged with
\* the page index, in page order.
C9_OneChunkPerSmallPage ==
    pc = "chunked" =>
        /\ \A i \in 1..Len(pages) : EmptyPage(i) => runs[i].chunks = <<>>
        /\ \A i \in 1..Len(pages) :
               UnderLimit(i) =>
                   /\ Len(runs[i].chunks) = 1
                   /\ runs[i].closes = <<>>
                   /\ runs[i].chunks[1].text = Join(SentencesOf(i), <<" ">>)
                   /\ Cardinality({k \in 1..Len(all_chunks) :
                                       all_chunks[k].page = pages[i].page}) = 1
        /\ \A k, l \in 1..Len(all_chunks) :
               k < l => all_chunks[k].page <= all_chunks[l].page
        /\ (\A i \in 1..Len(pages) : EmptyPage(i) \/ UnderLimit(i)) =>
               Len(all_chunks) = Cardinality({i \in 1..Len(pages) : UnderLimit(i)})

\* two pages under the limit, one of them holding two sentences, one chunk each
C9_Witness ==
    /\ pc = "chunked"
    /\ Len(pages) = 2
    /\ UnderLimit(1) /\ UnderLimit(2)
    /\ Len(SentencesOf(1)) = 2
    /\ Len(all_chunks) = 2
    /\ all_chunks[1].page = 0 /\ all_chunks[2].page = 1

(***************************************************************************)
(* Python dict with insertion order: a sequence of key/value entries.      *)
(***************************************************************************)
DictHas(d, k) == \E i \in 1..Len(d) : d[i].key = k

DictGet(d, k) == d[CHOOSE i \in 1..Len(d) : d[i].key = k].value

\* d[k] = v: an existing key keeps its position, a new key goes last
DictSet(d, k, v) ==
    IF DictHas(d, k)
    THEN [i \in 1..Len(d) |-> IF d[i].key = k THEN [key |-> k, value |-> v] ELSE d[i]]
    ELSE Append(d, [key |-> k, value |-> v])

\* if k in d: del d[k]
DictDel(d, k) ==
    LET keep == {i \in 1..Len(d) : d[i].key # k}
        pick[n \in 0..Len(d)] ==
            IF n = 0 THEN <<>>
            ELSE IF n \in keep THEN Append(pick[n - 1], d[n]) ELSE pick[n - 1]
    IN  pick[Len(d)]

\* the keys of d
DictKeys(d) == {d[i].key : i \in 1..Len(d)}

\* for v in d.values(): acc.extend(v)
RECURSIVE ExtendAll(_)
ExtendAll(d) == IF d = <<>> THEN <<>> ELSE Head(d).value \o ExtendAll(Tail(d))

(***************************************************************************)
(* DocumentQAService: ingestion into the store                             *)
(***************************************************************************)
DefaultChunkSize == 1000

DefaultChunkOverlap == 200

\* the global chunker instance; tiktoken is taken to be installed
document_chunker == DocumentChunker(DefaultChunkSize, DefaultChunkOverlap, TRUE)

RECURSIVE TotalTokens(_)
TotalTokens(chunks) ==
    IF chunks = <<>> THEN 0 ELSE Head(chunks).token_count + TotalTokens(Tail(chunks))

\* the metadata dictionary process_document builds
Metadata(file, pgs, chunks) ==
    [file_name |-> file.name, num_pages |-> Len(pgs), num_chunks |-> Len(chunks),
     total_tokens |-> TotalTokens(chunks)]

\* the object _save_processed_document dumps
ProcessedData(metadata, chunks) == [metadata |-> metadata, chunks |-> chunks]

\* parse_document(str(file_path), file_id=1)
parse_document(file) == ParsedPages(file.texts, 1)

(***************************************************************************)
(* The progress tracker (app/services/progress_service.py), as its callers *)
(* use it: one record per processing id with status, step number, step     *)
(* label, percentage and error message.                                    *)
(***************************************************************************)
TotalSteps == 3

HasRecord(records, id) == id \in DOMAIN records

IsFinal(record) == record.status \in {"completed", "failed"}

\* start_processing(processing_id, total_steps): a running record at step 1, 0%
start_processing(records, id, total_steps) ==
    [k \in DOMAIN records \cup {id} |->
        IF k = id
        THEN [status |-> "running", current_step_number |-> 1,
              total_steps |-> total_steps, progress |-> 0,
              current_step |-> "Starting", error_message |-> "None"]
        ELSE records[k]]

\* update_progress(file_id, step, message[, progress]) on a terminal record
\* changes what a running record would take
UpdateAlways(records, id, call) ==
    IF ~HasRecord(records, id) THEN records
    ELSE [records EXCEPT ![id] =
              [@ EXCEPT !.current_step_number = call.step,
                        !.current_step = call.label,
                        !.progress = IF "percent" \in DOMAIN call
                                     THEN call.percent ELSE @]]

\* update_progress(file_id, step, message[, progress]): step, label and
\* percentage of a running record; a call without percentage keeps it; a
\* terminal or missing record is left as it is
update_progress(records, id, call) ==
    IF ~HasRecord(records, id) \/ records[id].status # "running" THEN records
    ELSE [records EXCEPT ![id] =
              [@ EXCEPT !.current_step_number = call.step,
                        !.current_step = call.label,
                        !.progress = IF "percent" \in DOMAIN call
                                     THEN call.percent ELSE @]]

\* complete_processing(processing_id): running -> completed
complete_processing(records, id) ==
    IF ~HasRecord(records, id) \/ records[id].status # "running" THEN records
    ELSE [records EXCEPT ![id].status = "completed"]

\* set_error(processing_id, message): running -> failed with the message
set_error(records, id, message) ==
    IF ~HasRecord(records, id) \/ records[id].status # "running" THEN records
    ELSE [records EXCEPT ![id].status = "failed", ![id].error_message = message]

\* cleanup_progress(processing_id): the record is removed whatever its state
cleanup_progress(records, id) == [k \in DOMAIN records \ {id} |-> records[k]]

\* the update_progress calls made in order
RECURSIVE ApplyCalls(_, _, _)
ApplyCalls(records, id, calls) ==
    IF calls = <<>> THEN records
    ELSE ApplyCalls(update_progress(records, id, Head(calls)), id, Tail(calls))

\* the step numbers of the calls
StepsOf(calls) == [i \in 1..Len(calls) |-> calls[i].step]

\* parse_pdf up to PdfReader(path), which raises on an unreadable file
parse_pdf_opening == <<[step |-> 1, label |-> "Opening PDF file..."]>>

\* the update_progress calls of parse_pdf, percentages to whole percent
parse_pdf_progress(total_pages) ==
    parse_pdf_opening
    \o <<[step |-> 1, label |-> "Parsing pages", percent |-> 10]>>
    \o [i \in 1..total_pages |->
            [step |-> 1, label |-> "Parsed page",
             percent |-> 10 + (i * 90) \div total_pages]]

\* the last report of chunk_document_pages made for step 1
ChunkingEndsAtStepOne(total_pages) ==
    <<[step |-> 2, label |-> "Starting text chunking..."]>>
    \o [i \in 1..total_pages |->
            [step |-> 2, label |-> "Chunking page",
             percent |-> ((i - 1) * 90) \div total_pages]]
    \o <<[step |-> 1, label |-> "Chunking completed", percent |-> 100]>>

\* the update_progress calls of chunk_document_pages, percentages to whole
\* percent
chunk_document_pages_progress(total_pages) ==
    <<[step |-> 2, label |-> "Starting text chunking..."]>>
    \o [i \in 1..total_pages |->
            [step |-> 2, label |-> "Chunking page",
             percent |-> ((i - 1) * 90) \div total_pages]]
    \o <<[step |-> 2, label |-> "Chunking completed", percent |-> 100]>>

(***************************************************************************)
(* DocumentQAService._find_relevant_chunks                                 *)
(***************************************************************************)
\* "Get chunks from specified document or all documents"
Candidates(chunks_by_doc, file_id) ==
    IF file_id # "None" /\ DictHas(chunks_by_doc, file_id)
    THEN DictGet(chunks_by_doc, file_id)
    ELSE ExtendAll(chunks_by_doc)

\* set(question.lower().split())
Keywords(question) ==
    LET words == Split(Lower(question)) IN {words[i] : i \in 1..Len(words)}

\* matches: keywords found anywhere in the lowercased chunk text
Matches(keywords, lowered) ==
    Cardinality({keyword \in keywords : Contains(lowered, keyword)})

\* partial_matches: keywords found inside some word of the chunk
PartialMatches(keywords, lowered) ==
    LET words == Split(lowered)
    IN  Cardinality({keyword \in keywords :
                        \E i \in 1..Len(words) : Contains(words[i], keyword)})

RelevanceScore(keywords, chunk) ==
    Matches(keywords, Lower(chunk.text)) * 2 + PartialMatches(keywords, Lower(chunk.text))

\* chunk.copy() with relevance_score set
WithScore(chunk, score) ==
    [file_id |-> chunk.file_id, chunk_id |-> chunk.chunk_id, text |-> chunk.text,
     token_count |-> chunk.token_count, page |-> chunk.page,
     source_page |-> chunk.source_page, relevance_score |-> score]

ScoreAll(keywords, chunks) ==
    [i \in 1..Len(chunks) |-> WithScore(chunks[i], RelevanceScore(keywords, chunks[i]))]

\* insert x behind every element whose score is not lower (stable, descending)
RECURSIVE InsertDescending(_, _)
InsertDescending(sorted, x) ==
    IF sorted = <<>> THEN <<x>>
    ELSE IF Head(sorted).relevance_score >= x.relevance_score
    THEN <<Head(sorted)>> \o InsertDescending(Tail(sorted), x)
    ELSE <<x>> \o sorted

RECURSIVE SortInto(_, _)
SortInto(sorted, rest) ==
    IF rest = <<>> THEN sorted
    ELSE SortInto(InsertDescending(sorted, Head(rest)), Tail(rest))

\* an ascending stable sort read backwards: equal scores come out reversed
RECURSIVE SortReversingTies(_)
SortReversingTies(scored_chunks) ==
    IF scored_chunks = <<>> THEN <<>>
    ELSE LET x == Head(scored_chunks)
             rest == SortReversingTies(Tail(scored_chunks))
             before == {i \in 1..Len(rest) : rest[i].relevance_score >= x.relevance_score}
         IN  SubSeq(rest, 1, Cardinality(before)) \o <<x>>
             \o SubSeq(rest, Cardinality(before) + 1, Len(rest))

\* the list left in candidate order
Unsorted(scored_chunks) == scored_chunks

\* scored_chunks.sort(key=lambda x: x["relevance_score"], reverse=True)
SortByRelevance(scored_chunks) == SortInto(<<>>, scored_chunks)

\* any(chunk["relevance_score"] > 0 for chunk in scored_chunks[:max_chunks])
AnyGoodMatch(scored_chunks, max_chunks) ==
    \E i \in 1..Len(FirstSlice(scored_chunks, max_chunks)) :
        scored_chunks[i].relevance_score > 0

\* the top chunks returned whatever their scores
TopAlways(cands, scored_chunks, max_chunks) == FirstSlice(scored_chunks, max_chunks)

\* the two return statements after sorting
TopOrFallback(cands, scored_chunks, max_chunks) ==
    IF ~AnyGoodMatch(scored_chunks, max_chunks)
    THEN FirstSlice(cands, max_chunks)
    ELSE FirstSlice(scored_chunks, max_chunks)

_find_relevant_chunks(chunks_by_doc, question, file_id, max_chunks) ==
    LET cands == Candidates(chunks_by_doc, file_id)
    IN  IF cands = <<>> THEN <<>>
        ELSE TopOrFallback(cands, SortByRelevance(ScoreAll(Keywords(question), cands)),
                           max_chunks)

(***************************************************************************)
(* The retriever over a store filled by ingestion: documents are ingested  *)
(* one after the other, then one question is asked.                        *)
(***************************************************************************)
DocIds == {"d1", "d2"}

\* page texts of the ingested documents
RetrievalTexts == {<<"a", "b">>, <<"A", " ", "b">>}

\* an uploaded file: its stem and the text of its pages
Files ==
    {[name |-> d, texts |-> t] :
         d \in DocIds, t \in UNION {[1..n -> RetrievalTexts] : n \in 0..MaxPages}}

Questions ==
    {<<>>, <<"a">>, <<"b">>, <<"c">>, <<"a", "b">>, <<"A", " ", "B">>, <<"a", " ", "a">>,
     <<"a", "b", " ", "b">>}

Limits == 1..MaxLimit

InitRetrieve ==
    /\ pc = "idle"
    /\ chunker = document_chunker
    /\ pages = <<>>
    /\ all_chunks = <<>>
    /\ runs = <<>>
    /\ document_chunks = <<>>
    /\ document_metadata = <<>>
    /\ query = NoQuery
    /\ result = <<>>
    /\ processed = <<>>
    /\ jobs = <<>>
    /\ reader = Idle
    /\ progress = <<>>

\* process_document run to its end with nothing else running: parse, chunk,
\* store the chunks, store the metadata
ProcessDocument(file) ==
    /\ pc = "idle"
    /\ LET pgs == parse_document(file)
           chunks == chunk_document_pages(chunker, pgs)
       IN  /\ document_chunks' = DictSet(document_chunks, file.name, chunks)
           /\ document_metadata' = DictSet(document_metadata, file.name,
                                           Metadata(file, pgs, chunks))
           /\ processed' = DictSet(processed, file.name,
                                   ProcessedData(Metadata(file, pgs, chunks), chunks))
    /\ UNCHANGED <<pc, chunker, chunkVars, queryVars, taskVars>>

FindRelevantChunks(question, file_id, max_chunks) ==
    /\ pc = "idle"
    /\ pc' = "answered"
    /\ query' = [question |-> question, file_id |-> file_id, max_chunks |-> max_chunks]
    /\ result' = _find_relevant_chunks(document_chunks, question, file_id, max_chunks)
    /\ UNCHANGED <<chunker, chunkVars, storeVars, taskVars>>

NextRetrieve ==
    \/ \E file \in Files : ProcessDocument(file)
    \/ \E q \in Questions, d \in DocIds \cup {"None"}, n \in Limits :
           FindRelevantChunks(q, d, n)

SpecRetrieve == InitRetrieve /\ [][NextRetrieve]_vars

(***************************************************************************)
(* The store with its operations run one after the other: ingestions and   *)
(* deletions, no two at a time.                                            *)
(***************************************************************************)
\* only the chunk list is removed
DeleteChunksOnly(file_id) ==
    /\ pc = "idle"
    /\ reader' = [pc |-> "deleted", file_id |-> file_id, status_code |-> 200,
                  known |-> DictHas(document_chunks, file_id)]
    /\ document_chunks' = DictDel(document_chunks, file_id)
    /\ UNCHANGED <<pc, chunker, chunkVars, document_metadata, processed, queryVars, jobs,
                   progress>>

\* delete_document run to its end with nothing else running: the id removed
\* from both maps, the processed file unlinked, success returned
DeleteDocument(file_id) ==
    /\ pc = "idle"
    /\ reader' = [pc |-> "deleted", file_id |-> file_id, status_code |-> 200,
                  known |-> DictHas(document_chunks, file_id)]
    /\ document_chunks' = DictDel(document_chunks, file_id)
    /\ document_metadata' = DictDel(document_metadata, file_id)
    /\ processed' = DictDel(processed, file_id)
    /\ UNCHANGED <<pc, chunker, chunkVars, queryVars, jobs, progress>>

NextStore ==
    \/ \E file \in Files : ProcessDocument(file)
    \/ \E d \in DocIds : DeleteDocument(d)

SpecStore == InitRetrieve /\ [][NextStore]_vars

(***************************************************************************)
(* answer_question over a store filled by ingestion.  The language model   *)
(* is outside the program: it is not loaded, or it answers, or its call    *)
(* raises; the text of its answer is not modelled, and neither is the      *)
(* context string, which only the language model reads.                    *)
(***************************************************************************)
\* == between two Python values that are each an int or a str: values of
\* different types are unequal, so the key 1 is not the key "1"
PyEq(a, b) == ToString(a) = ToString(b)

\* key in d, for a key of either type
PyIn(d, k) == \E i \in 1..Len(d) : PyEq(d[i].key, k)

\* d[key], for a key of either type that is in d
PyGet(d, k) == d[CHOOSE i \in 1..Len(d) : PyEq(d[i].key, k)].value

RECURSIVE _extract_sources(_, _)
_extract_sources(chunks, metadata) ==
    IF chunks = <<>> THEN <<>>
    ELSE LET chunk == Head(chunks)
             file_id == chunk.file_id
         IN  (IF PyIn(metadata, file_id)
              THEN <<[file_name |-> PyGet(metadata, file_id).file_name,
                      page |-> chunk.page, chunk_id |-> chunk.chunk_id]>>
              ELSE <<>>)
             \o _extract_sources(Tail(chunks), metadata)

\* what the language model does when answer_question reaches it
LlmOutcomes == {"not_loaded", "answers", "raises"}

\* the dictionary answer_question returns
Answered(question, relevant_chunks, metadata) ==
    [pc |-> "asked", success |-> TRUE, sources |-> _extract_sources(relevant_chunks, metadata),
     chunks_used |-> Len(relevant_chunks), question |-> question]

Refused(error) == [pc |-> "asked", success |-> FALSE, error |-> error]

AnswerQuestion(llm, question, file_id, max_chunks) ==
    /\ pc = "idle"
    /\ pc' = "answered"
    /\ query' = [question |-> question, file_id |-> file_id, max_chunks |-> max_chunks]
    /\ IF llm = "not_loaded"
       THEN /\ result' = <<>>
            /\ reader' = Refused("LLM model not loaded")
       ELSE LET relevant_chunks ==
                    _find_relevant_chunks(document_chunks, question, file_id, max_chunks)
            IN  /\ result' = relevant_chunks
                /\ reader' = IF relevant_chunks = <<>>
                             THEN Refused("No relevant documents found")
                             ELSE IF llm = "raises" THEN Refused("exception")
                             ELSE Answered(question, relevant_chunks, document_metadata)
    /\ UNCHANGED <<chunker, chunkVars, storeVars, jobs, progress>>

NextAnswer ==
    \/ \E file \in Files : ProcessDocument(file)
    \/ \E llm \in LlmOutcomes, q \in Questions, d \in DocIds \cup {"None"}, n \in Limits :
           AnswerQuestion(llm, q, d, n)

SpecAnswer == InitRetrieve /\ [][NextAnswer]_vars

(***************************************************************************)
(* Properties of the retriever (checked under SpecRetrieve).               *)
(***************************************************************************)
\* the candidates of the asked question: the scoped document's chunks, none
\* when the scoped document is not stored, every document's chunks otherwise
ScopedCandidates ==
    IF query.file_id = "None" THEN ExtendAll(document_chunks)
    ELSE IF DictHas(document_chunks, query.file_id)
    THEN DictGet(document_chunks, query.file_id)
    ELSE <<>>

IsScored(chunk) == "relevance_score" \in DOMAIN chunk

\* a returned chunk without its score
Unscored(chunk) ==
    [file_id |-> chunk.file_id, chunk_id |-> chunk.chunk_id, text |-> chunk.text,
     token_count |-> chunk.token_count, page |-> chunk.page,
     source_page |-> chunk.source_page]

\* keywords equal to a whole whitespace-delimited word of the lowercased text
ExactMatches(keywords, text) ==
    LET words == Split(Lower(text))
    IN  Cardinality({k \in keywords : \E i \in 1..Len(words) : words[i] = k})

\* keywords that are a substring of some word of the lowercased text
SubstringMatches(keywords, text) ==
    LET words == Split(Lower(text))
    IN  Cardinality({k \in keywords : \E i \in 1..Len(words) : Contains(words[i], k)})

\* C1: relevance_score = 2 * exact_matches + partial_matches, exact_matches
\* counting the keywords equal to a whole word of the chunk and partial_matches
\* the keywords that are a substring of some word.
C1_ScoreExactPlusPartial ==
    pc = "answered" =>
        \A i \in 1..Len(result) :
            IsScored(result[i]) =>
                result[i].relevance_score =
                    2 * ExactMatches(Keywords(query.question), result[i].text)
                    + SubstringMatches(Keywords(query.question), result[i].text)

\* C2: a question scoped to document d returns only chunks of d's stored
\* list, and nothing when d is not stored.
C2_ScopedToDocument ==
    (pc = "answered" /\ query.file_id # "None") =>
        IF DictHas(document_chunks, query.file_id)
        THEN \A i \in 1..Len(result) :
                 \E j \in 1..Len(DictGet(document_chunks, query.file_id)) :
                     Unscored(result[i]) = DictGet(document_chunks, query.file_id)[j]
        ELSE result = <<>>

ContainsKeyword(chunk) ==
    \E k \in Keywords(query.question) : Contains(Lower(chunk.text), k)

\* C3: when no candidate contains a keyword the result is the first
\* max_chunks candidates, in order and without a relevance_score, and is not
\* empty when there is a candidate.
C3_FallbackFirstChunks ==
    (/\ pc = "answered"
     /\ ScopedCandidates # <<>>
     /\ \A i \in 1..Len(ScopedCandidates) : ~ContainsKeyword(ScopedCandidates[i])) =>
        /\ result # <<>>
        /\ Len(result) = Min(query.max_chunks, Len(ScopedCandidates))
        /\ \A i \in 1..Len(result) : result[i] = ScopedCandidates[i] /\ ~IsScored(result[i])

\* the fallback taken with keywords asked and more candidates than the limit
C3_Witness ==
    /\ pc = "answered"
    /\ Keywords(query.question) # {}
    /\ Len(ScopedCandidates) > query.max_chunks
    /\ \A i \in 1..Len(ScopedCandidates) : ~ContainsKeyword(ScopedCandidates[i])
    /\ ScopedCandidates[1] # ScopedCandidates[2]
    /\ Len(result) = query.max_chunks

\* candidates scoring exactly level, in candidate order, with the score attached
AtLevel(cands, keywords, level) ==
    LET idx == {i \in 1..Len(cands) : RelevanceScore(keywords, cands[i]) = level}
        pick[n \in 0..Len(cands)] ==
            IF n = 0 THEN <<>>
            ELSE IF n \in idx THEN Append(pick[n - 1], WithScore(cands[n], level))
            ELSE pick[n - 1]
    IN  pick[Len(cands)]

\* the candidates by descending score, equal scores in candidate order
RECURSIVE RankedFrom(_, _, _)
RankedFrom(cands, keywords, level) ==
    IF level < 0 THEN <<>>
    ELSE AtLevel(cands, keywords, level) \o RankedFrom(cands, keywords, level - 1)

\* C4: when some candidate scores above 0 the result has at most max_chunks
\* chunks, sorted by descending relevance_score, chunks of equal score in the
\* order of the candidate list.
C4_StableRanking ==
    (/\ pc = "answered"
     /\ \E i \in 1..Len(ScopedCandidates) :
            RelevanceScore(Keywords(query.question), ScopedCandidates[i]) > 0) =>
        /\ Len(result) <= query.max_chunks
        /\ \A i, j \in 1..Len(result) :
               i < j => result[i].relevance_score >= result[j].relevance_score
        /\ result = FirstSlice(RankedFrom(ScopedCandidates, Keywords(query.question),
                                          3 * Cardinality(Keywords(query.question))),
                               query.max_chunks)

\* two different chunks tie on a positive score ahead of the first candidate,
\* which scores lower and is cut off
C4_Witness ==
    /\ pc = "answered"
    /\ Len(ScopedCandidates) > 2
    /\ Len(result) = 2
    /\ IsScored(result[1]) /\ IsScored(result[2])
    /\ result[1].relevance_score > 0
    /\ result[1].relevance_score = result[2].relevance_score
    /\ result[1] # result[2]
    /\ RelevanceScore(Keywords(query.question), ScopedCandidates[1]) < result[1].relevance_score

(***************************************************************************)
(* The service at run time.  upload_document hands process_document_async  *)
(* to the worker threads, where it runs the steps of process_document      *)
(* concurrently with the request handlers of the event loop.               *)
(***************************************************************************)
\* uploads: one page, or two pages, or a file the parser raises on
Uploads ==
    {[name |-> d, texts |-> t, readable |-> TRUE] :
         d \in DocIds, t \in {<<<<"c">>>>, <<<<"a", "b">>, <<"c">>>>}}
    \cup {[name |-> d, texts |-> <<>>, readable |-> FALSE] : d \in DocIds}

\* what process_document leaves on disk for a readable upload
BlobOf(file) ==
    LET pgs == parse_document(file)
        chunks == chunk_document_pages(document_chunker, pgs)
    IN  ProcessedData(Metadata(file, pgs, chunks), chunks)

\* data/processed as earlier runs of the service may have left it after
\* one-page uploads, in the order glob lists it
PriorProcessed ==
    LET entries == {[key |-> f.name, value |-> BlobOf(f)] :
                        f \in {u \in Uploads : u.readable /\ Len(u.texts) = 1}}
    IN  {<<>>} \cup {<<e>> : e \in entries}
        \cup {pair \in {<<e1, e2>> : e1 \in entries, e2 \in entries} :
                  pair[1].key # pair[2].key}

\* load_processed_document for every file of data/processed, in order
RECURSIVE LoadedChunks(_)
LoadedChunks(blobs) ==
    IF blobs = <<>> THEN <<>>
    ELSE DictSet(LoadedChunks(SubSeq(blobs, 1, Len(blobs) - 1)),
                 blobs[Len(blobs)].key, blobs[Len(blobs)].value.chunks)

RECURSIVE LoadedMetadata(_)
LoadedMetadata(blobs) ==
    IF blobs = <<>> THEN <<>>
    ELSE DictSet(LoadedMetadata(SubSeq(blobs, 1, Len(blobs) - 1)),
                 blobs[Len(blobs)].key, blobs[Len(blobs)].value.metadata)

\* DocumentQAService.__init__ with _load_existing_documents
Init ==
    /\ pc = "serving"
    /\ chunker = document_chunker
    /\ pages = <<>>
    /\ all_chunks = <<>>
    /\ runs = <<>>
    /\ processed \in PriorProcessed
    /\ document_chunks = LoadedChunks(processed)
    /\ document_metadata = LoadedMetadata(processed)
    /\ query = NoQuery
    /\ result = <<>>
    /\ jobs = <<>>
    /\ reader = Idle
    /\ progress = <<>>

SetJob(j, job) == jobs' = [jobs EXCEPT ![j] = job]

\* the locals of a process_document_async call that has not started
NewJob(file) ==
    [pc |-> "queued", file |-> file, file_id |-> file.name, pgs |-> <<>>,
     chunks |-> <<>>, wrote |-> FALSE, reported |-> <<>>, error |-> "None",
     raised |-> FALSE, timer |-> "none"]

\* upload_document: the file is saved and the background task added
UploadDocument(file) ==
    /\ Len(jobs) < MaxJobs
    /\ jobs' = Append(jobs, NewJob(file))
    /\ UNCHANGED <<pc, chunker, chunkVars, storeVars, queryVars, reader, progress>>

\* the timer started before the work
StartProcessingWithTimer(j) ==
    /\ jobs[j].pc = "queued"
    /\ progress' = start_processing(progress, j, TotalSteps)
    /\ SetJob(j, [jobs[j] EXCEPT !.pc = "parse", !.timer = "pending"])
    /\ UNCHANGED <<pc, chunker, chunkVars, storeVars, queryVars, reader>>

\* process_document_async up to the call of the ingestion
StartProcessing(j) ==
    /\ jobs[j].pc = "queued"
    /\ progress' = start_processing(progress, j, TotalSteps)
    /\ SetJob(j, [jobs[j] EXCEPT !.pc = "parse"])
    /\ UNCHANGED <<pc, chunker, chunkVars, storeVars, queryVars, reader>>

\* only a successful result reaches the tracker
ConcludeSuccessOnly(records, id, job) ==
    IF job.error = "None" THEN complete_processing(records, id) ELSE records

\* process_document_async after the ingestion: complete_processing on
\* result["success"], set_error on a failed result or a raised exception
Conclude(records, id, job) ==
    IF job.error = "None"
    THEN complete_processing(records, id)
    ELSE set_error(records, id, job.error)

\* finally: timer.start()
StartTimer(job) == [job EXCEPT !.timer = "pending"]

\* the ingestion parses the file and chunks its pages, reporting to the
\* tracker; what the parser raises is either caught by the ingestion and
\* returned as a failed result or reaches process_document_async
ParseAndChunk(j) ==
    /\ jobs[j].pc = "parse"
    /\ IF jobs[j].file.readable
       THEN LET pgs == parse_document(jobs[j].file)
                calls == parse_pdf_progress(Len(pgs))
                             \o chunk_document_pages_progress(Len(pgs))
            IN  /\ SetJob(j, [jobs[j] EXCEPT
                                  !.pc = "store_chunks", !.pgs = pgs,
                                  !.chunks = chunk_document_pages(chunker, pgs),
                                  !.reported = @ \o StepsOf(calls)])
                /\ progress' = ApplyCalls(progress, j, calls)
       ELSE \E raised \in BOOLEAN :
                LET job == [jobs[j] EXCEPT
                                !.pc = "failed", !.error = "unreadable",
                                !.raised = raised,
                                !.reported = @ \o StepsOf(parse_pdf_opening)]
                IN  /\ SetJob(j, StartTimer(job))
                    /\ progress' = Conclude(ApplyCalls(progress, j, parse_pdf_opening),
                                            j, job)
    /\ UNCHANGED <<pc, chunker, chunkVars, storeVars, queryVars, reader>>

\* self.document_chunks[file_id] = chunks
StoreChunks(j) ==
    /\ jobs[j].pc = "store_chunks"
    /\ document_chunks' = DictSet(document_chunks, jobs[j].file_id, jobs[j].chunks)
    /\ SetJob(j, [jobs[j] EXCEPT !.pc = "store_metadata", !.wrote = TRUE])
    /\ UNCHANGED <<pc, chunker, chunkVars, document_metadata, processed, queryVars,
                   reader, progress>>

\* self.document_metadata[file_id] = {...}
StoreMetadata(j) ==
    /\ jobs[j].pc = "store_metadata"
    /\ document_metadata' = DictSet(document_metadata, jobs[j].file_id,
                                    Metadata(jobs[j].file, jobs[j].pgs, jobs[j].chunks))
    /\ SetJob(j, [jobs[j] EXCEPT !.pc = "save"])
    /\ UNCHANGED <<pc, chunker, chunkVars, document_chunks, processed, queryVars,
                   reader, progress>>

\* self._save_processed_document(file_id, chunks, self.document_metadata[file_id]),
\* the result returned and the end of process_document_async
SaveProcessedDocument(j) ==
    /\ jobs[j].pc = "save"
    /\ LET found == DictHas(document_metadata, jobs[j].file_id)
           job == IF found THEN [jobs[j] EXCEPT !.pc = "completed"]
                  ELSE [jobs[j] EXCEPT !.pc = "failed", !.error = "KeyError"]
       IN  /\ processed' = IF found
                           THEN DictSet(processed, jobs[j].file_id,
                                        ProcessedData(DictGet(document_metadata,
                                                              jobs[j].file_id),
                                                      jobs[j].chunks))
                           ELSE processed
           /\ SetJob(j, StartTimer(job))
           /\ progress' = Conclude(progress, j, job)
    /\ UNCHANGED <<pc, chunker, chunkVars, document_chunks, document_metadata, queryVars,
                   reader>>

\* the timer fires: progress_service.cleanup_progress(processing_id)
CleanupProgress(j) ==
    /\ jobs[j].timer = "pending"
    /\ progress' = cleanup_progress(progress, j)
    /\ SetJob(j, [jobs[j] EXCEPT !.timer = "fired"])
    /\ UNCHANGED <<pc, chunker, chunkVars, storeVars, queryVars, reader>>

\* a step of the background task j
JobStep(j) ==
    \/ StartProcessing(j)
    \/ ParseAndChunk(j)
    \/ StoreChunks(j)
    \/ StoreMetadata(j)
    \/ SaveProcessedDocument(j)

\* raise HTTPException(status_code=...) inside a try whose except Exception
\* clause raises HTTPException(status_code=500): HTTPException is an Exception
RaisedInsideTry(status_code) == 500

\* get_document_info, first half: the test and the read of document_metadata
GetDocumentInfoMetadata(file_id) ==
    /\ reader.pc = "idle"
    /\ reader' = IF DictHas(document_metadata, file_id)
                 THEN [pc |-> "read_chunks", file_id |-> file_id,
                       metadata |-> DictGet(document_metadata, file_id)]
                 ELSE [pc |-> "not_found", file_id |-> file_id,
                       status_code |-> RaisedInsideTry(404)]
    /\ UNCHANGED <<pc, chunker, chunkVars, storeVars, queryVars, jobs, progress>>

\* get_document_info, second half: len(self.document_chunks.get(file_id, []))
GetDocumentInfoChunks ==
    /\ reader.pc = "read_chunks"
    /\ reader' = [pc |-> "found", file_id |-> reader.file_id, metadata |-> reader.metadata,
                  chunks_count |-> IF DictHas(document_chunks, reader.file_id)
                                   THEN Len(DictGet(document_chunks, reader.file_id))
                                   ELSE 0,
                  status_code |-> 200]
    /\ UNCHANGED <<pc, chunker, chunkVars, storeVars, queryVars, jobs, progress>>

\* get_processing_status: progress_service.get_progress and the response
GetProcessingStatus(id) ==
    /\ reader.pc = "idle"
    /\ reader' = IF HasRecord(progress, id)
                 THEN [pc |-> "status_found", id |-> id, record |-> progress[id],
                       status_code |-> 200]
                 ELSE [pc |-> "status_not_found", id |-> id,
                       status_code |-> RaisedInsideTry(404)]
    /\ UNCHANGED <<pc, chunker, chunkVars, storeVars, queryVars, jobs, progress>>

\* delete_document, first step: del qa_service.document_chunks[file_id]
DeleteFromChunks(file_id) ==
    /\ reader.pc = "idle"
    /\ reader' = [pc |-> "del_metadata", file_id |-> file_id]
    /\ document_chunks' = DictDel(document_chunks, file_id)
    /\ UNCHANGED <<pc, chunker, chunkVars, document_metadata, processed, queryVars, jobs,
                   progress>>

\* delete_document, second step: del qa_service.document_metadata[file_id]
DeleteFromMetadata ==
    /\ reader.pc = "del_metadata"
    /\ reader' = [pc |-> "del_blob", file_id |-> reader.file_id]
    /\ document_metadata' = DictDel(document_metadata, reader.file_id)
    /\ UNCHANGED <<pc, chunker, chunkVars, document_chunks, processed, queryVars, jobs,
                   progress>>

\* delete_document, last step: processed_file.unlink() and the response
DeleteProcessedFile ==
    /\ reader.pc = "del_blob"
    /\ reader' = [pc |-> "deleted", file_id |-> reader.file_id, status_code |-> 200]
    /\ processed' = DictDel(processed, reader.file_id)
    /\ UNCHANGED <<pc, chunker, chunkVars, document_chunks, document_metadata, queryVars,
                   jobs, progress>>

\* a notification of the ingestion delivered after the terminal transition
LateUpdate(id, call) ==
    /\ reader.pc = "idle"
    /\ HasRecord(progress, id)
    /\ IsFinal(progress[id])
    /\ reader' = [pc |-> "updated", id |-> id, call |-> call, before |-> progress[id]]
    /\ progress' = update_progress(progress, id, call)
    /\ UNCHANGED <<pc, chunker, chunkVars, storeVars, queryVars, jobs>>

\* the response is sent and the event loop takes the next request
Respond ==
    /\ reader.pc \in {"found", "not_found", "status_found", "status_not_found",
                      "deleted", "updated"}
    /\ reader' = Idle
    /\ UNCHANGED <<pc, chunker, chunkVars, storeVars, queryVars, jobs, progress>>

Next ==
    \/ \E file \in Uploads : UploadDocument(file)
    \/ \E j \in 1..Len(jobs) : StartProcessing(j)
    \/ \E j \in 1..Len(jobs) : ParseAndChunk(j)
    \/ \E j \in 1..Len(jobs) : StoreChunks(j)
    \/ \E j \in 1..Len(jobs) : StoreMetadata(j)
    \/ \E j \in 1..Len(jobs) : SaveProcessedDocument(j)
    \/ \E d \in DocIds : GetDocumentInfoMetadata(d)
    \/ GetDocumentInfoChunks
    \/ \E d \in DocIds : DeleteFromChunks(d)
    \/ DeleteFromMetadata
    \/ DeleteProcessedFile
    \/ Respond

Spec == Init /\ [][Next]_vars

(***************************************************************************)
(* The ingestion jobs and their progress records: uploads of one document, *)
(* the cleanup timers, status polls and late notifications.                *)
(***************************************************************************)
\* uploads of d1: the two-page file and the file the parser raises on
ProgressUploads ==
    {file \in Uploads : file.name = "d1" /\ (~file.readable \/ Len(file.texts) = 2)}

\* processing ids a client may poll: those of the jobs and one never issued
PolledIds == 1..(MaxJobs + 1)

\* the reports a late notification may carry
LateCalls == {[step |-> 1, label |-> "Parsed page", percent |-> 55],
              [step |-> 2, label |-> "Starting text chunking..."]}

\* the service started on an empty data/processed
InitProgress ==
    /\ Init
    /\ processed = <<>>

NextProgress ==
    \/ \E file \in ProgressUploads : UploadDocument(file)
    \/ \E j \in 1..Len(jobs) : JobStep(j)
    \/ \E j \in 1..Len(jobs) : CleanupProgress(j)
    \/ \E id \in PolledIds : GetProcessingStatus(id)
    \/ \E id \in PolledIds, call \in LateCalls : LateUpdate(id, call)
    \/ \E d \in DocIds : GetDocumentInfoMetadata(d)
    \/ GetDocumentInfoChunks
    \/ Respond

SpecProgress == InitProgress /\ [][NextProgress]_vars

\* some background task has not ended: a step of a task is enabled
JobRunnable == \E j \in 1..Len(jobs) : jobs[j].pc \notin {"completed", "failed"}

\* a background task has taken a step: only JobStep moves a task's pc
JobMoved == \E j \in 1..Len(jobs) : jobs'[j].pc # jobs[j].pc

\* the worker threads run every background task to its end: weak fairness of
\* the tasks' steps, WF_vars(\E j \in 1..Len(jobs) : JobStep(j)), written out
\* with JobRunnable for ENABLED and JobMoved for the step
SpecProgressFair ==
    SpecProgress /\ ([]<>(~JobRunnable) \/ []<><<JobMoved>>_vars)

StoreQuiescent ==
    /\ reader.pc \notin {"del_metadata", "del_blob"}
    /\ \A j \in 1..Len(jobs) : jobs[j].pc \in {"queued", "completed", "failed"}

JobsOf(d) == {j \in 1..Len(jobs) : jobs[j].file_id = d}

\* the store holds for d exactly what task j alone writes
HoldsEntryOf(d, j) ==
    /\ DictGet(document_chunks, d) = jobs[j].chunks
    /\ DictGet(document_metadata, d) =
           Metadata(jobs[j].file, jobs[j].pgs, jobs[j].chunks)

RecordFollowsJob(j) ==
    CASE jobs[j].pc = "queued" -> ~HasRecord(progress, j)
      [] jobs[j].pc \in {"parse", "store_chunks", "store_metadata", "save"} ->
             HasRecord(progress, j) /\ progress[j].status = "running"
      [] jobs[j].pc = "completed" ->
             HasRecord(progress, j) =>
                 progress[j].status = "completed" /\ jobs[j].error = "None"
      [] jobs[j].pc = "failed" ->
             HasRecord(progress, j) =>
                 /\ progress[j].status = "failed"
                 /\ progress[j].error_message = jobs[j].error
                 /\ jobs[j].error # "None"

\* a terminal status is not replaced by another status
StatusKept ==
    \A j \in DOMAIN progress :
        (IsFinal(progress[j]) /\ HasRecord(progress', j)) =>
            progress'[j].status = progress[j].status

\* C13: a started job's record is running until the ingestion ends, then
\* completed when the ingestion succeeded and failed with the causing message
\* when it reported failure or raised; the status then stays, and every started
\* job gets there.
C13_JobReachesOneTerminalStatus ==
    /\ [](\A j \in 1..Len(jobs) : RecordFollowsJob(j))
    /\ [][StatusKept]_vars
    /\ \A j \in 1..MaxJobs :
           (HasRecord(progress, j) /\ progress[j].status = "running")
               ~> (~HasRecord(progress, j) \/ IsFinal(progress[j]))

\* one job failed on a raised exception and one completed, both records kept
C13_Witness ==
    /\ Len(jobs) = 2
    /\ jobs[1].pc = "failed" /\ jobs[1].raised
    /\ jobs[2].pc = "completed"
    /\ HasRecord(progress, 1) /\ progress[1].status = "failed"
    /\ progress[1].error_message = "unreadable"
    /\ HasRecord(progress, 2) /\ progress[2].status = "completed"

\* C14: an update delivered to a completed or failed record leaves its status,
\* step number, percentage, label and error message as they were, for as long as
\* the record is kept.
C14_TerminalRecordIgnoresUpdate ==
    (reader.pc = "updated" /\ HasRecord(progress, reader.id)) =>
        progress[reader.id] = reader.before

\* a late report naming another step and label than the terminal record holds
C14_Witness ==
    /\ reader.pc = "updated"
    /\ HasRecord(progress, reader.id)
    /\ reader.before.status = "completed"
    /\ reader.call.step # reader.before.current_step_number
    /\ reader.call.label # reader.before.current_step
    /\ "percent" \in DOMAIN reader.call
    /\ reader.call.percent # reader.before.progress

NonDecreasing(seq) == \A i \in 1..(Len(seq) - 1) : seq[i] <= seq[i + 1]

\* the step numbers task j's record has held: step 1 from start_processing,
\* then those reported by the parser and the chunker
StepsHeld(j) == <<1>> \o jobs[j].reported

\* the step number of a kept record does not go down
StepKept ==
    \A j \in DOMAIN progress :
        HasRecord(progress', j) =>
            progress'[j].current_step_number >= progress[j].current_step_number

\* C15: within one job the step numbers reported by the pipeline, from step 1
\* at the start through parsing (step 1) and chunking (step 2), never decrease,
\* and the record's current_step_number is the last reported and never goes
\* down.
C15_StepNeverDecreases ==
    /\ [](\A j \in 1..Len(jobs) :
              jobs[j].pc # "queued" =>
                  /\ NonDecreasing(StepsHeld(j))
                  /\ HasRecord(progress, j) =>
                         progress[j].current_step_number =
                             StepsHeld(j)[Len(StepsHeld(j))])
    /\ [][StepKept]_vars

\* a two-page document parsed and chunked: step 1 five times, step 2 four times
C15_Witness ==
    \E j \in 1..Len(jobs) :
        /\ jobs[j].pc = "completed"
        /\ StepsHeld(j) = <<1, 1, 1, 1, 1, 2, 2, 2, 2>>
        /\ HasRecord(progress, j)
        /\ progress[j].current_step_number = 2

\* the timer of task j is started with the terminal transition, and while it
\* is pending the terminal record is there
TimerFollowsJob(j) ==
    /\ jobs[j].timer # "none" <=> jobs[j].pc \in {"completed", "failed"}
    /\ jobs[j].timer = "pending" => HasRecord(progress, j) /\ IsFinal(progress[j])
    /\ jobs[j].timer = "fired" => ~HasRecord(progress, j)

\* a timer is started once, only a terminal record is removed, and a poll
\* while the timer is pending answers with the terminal record
TimerStep ==
    /\ \A j \in 1..Len(jobs) :
           (jobs'[j].timer = "pending" /\ jobs[j].timer # "pending") =>
               jobs[j].timer = "none"
    /\ \A j \in DOMAIN progress : ~HasRecord(progress', j) => IsFinal(progress[j])
    /\ \A j \in 1..Len(jobs) :
           (jobs[j].timer = "pending" /\ GetProcessingStatus(j)) =>
               /\ reader'.pc = "status_found"
               /\ reader'.record = progress[j]
               /\ IsFinal(reader'.record)

\* C16: cleanup_progress is scheduled once per job, with the job's terminal
\* transition and not before; no running record is ever removed, and from the
\* terminal transition to the eviction a poll of the job returns the terminal
\* record.
C16_EvictionAfterTerminal ==
    /\ [](\A j \in 1..Len(jobs) : TimerFollowsJob(j))
    /\ [][TimerStep]_vars

\* one job's record evicted, the other's polled as failed before its eviction
C16_Witness ==
    /\ Len(jobs) = 2
    /\ jobs[1].timer = "fired" /\ ~HasRecord(progress, 1)
    /\ jobs[2].timer = "pending"
    /\ reader.pc = "status_found" /\ reader.id = 2
    /\ reader.record.status = "failed"

(***************************************************************************)
(* Properties of the store's operations run one after the other (checked   *)
(* under SpecStore).                                                       *)
(***************************************************************************)
\* document d is in neither map and has no processed file
Unknown(d) ==
    /\ ~DictHas(document_chunks, d)
    /\ ~DictHas(document_metadata, d)
    /\ ~DictHas(processed, d)

\* dictionary after holds for key k what dictionary before holds
SameEntry(before, after, k) ==
    /\ DictHas(after, k) <=> DictHas(before, k)
    /\ DictHas(before, k) => DictGet(after, k) = DictGet(before, k)

\* what a deletion of d does
DeleteEffect(d) ==
    DeleteDocument(d) =>
        /\ reader'.status_code = 200
        /\ Unknown(d) => storeVars' = storeVars
        /\ Unknown(d)'
        /\ \A e \in DocIds \ {d} :
               /\ SameEntry(document_chunks, document_chunks', e)
               /\ SameEntry(document_metadata, document_metadata', e)
               /\ SameEntry(processed, processed', e)

\* C17: deleting an unknown document returns success and changes nothing;
\* deleting a known one removes it from document_chunks, document_metadata and
\* data/processed and leaves every other document's entry as it was; after a
\* deletion the document is unknown, so that a second deletion changes nothing.
C17_DeleteIsIdempotent == [][\A d \in DocIds : DeleteEffect(d)]_vars

\* a stored document deleted while another stays stored
C17_Witness ==
    /\ reader.pc = "deleted"
    /\ reader.known
    /\ Unknown(reader.file_id)
    /\ \E e \in DocIds \ {reader.file_id} :
           /\ DictHas(document_chunks, e)
           /\ DictHas(document_metadata, e)
           /\ DictHas(processed, e)
           /\ DictGet(document_chunks, e) # <<>>

(***************************************************************************)
(* Properties of the lookups (checked under SpecProgress).                 *)
(***************************************************************************)
\* C18: a lookup of a processing id without record (never issued, not started
\* or evicted) or of a document id that is not stored is answered as not found
\* (404), never as an internal error (500).
C18_NotFoundIsNotInternalError ==
    reader.pc \in {"not_found", "status_not_found"} => reader.status_code = 404

(***************************************************************************)
(* Further properties of the chunker (checked under SpecChunk) and of the  *)
(* retriever (checked under SpecRetrieve).                                 *)
(***************************************************************************)
\* C19: the token_count of every emitted chunk is count_tokens of the chunk's
\* text, with the tokenizer as with the word approximation.
C19_TokenCountOfText ==
    pc = "chunked" =>
        \A i \in 1..Len(all_chunks) :
            all_chunks[i].token_count = count_tokens(chunker, all_chunks[i].text)

\* the relevance_score of the i-th candidate for the asked question
ScoreOfCandidate(i) == RelevanceScore(Keywords(query.question), ScopedCandidates[i])

\* C20: with max_chunks >= 1 and candidates, the fallback (the first
\* candidates, without relevance_score) is returned exactly when every
\* candidate scores 0; one positive score anywhere in the candidate list
\* makes the result a scored one.
C20_FallbackOnlyWhenAllZero ==
    (pc = "answered" /\ ScopedCandidates # <<>> /\ query.max_chunks >= 1) =>
        ((\A i \in 1..Len(result) : ~IsScored(result[i]))
             <=> (\A i \in 1..Len(ScopedCandidates) : ScoreOfCandidate(i) = 0))

\* the first max_chunks candidates score 0, a later one scores above 0, and
\* the result is scored
C20_Witness ==
    /\ pc = "answered"
    /\ Len(ScopedCandidates) > query.max_chunks
    /\ \A i \in 1..query.max_chunks : ScoreOfCandidate(i) = 0
    /\ \E i \in (query.max_chunks + 1)..Len(ScopedCandidates) : ScoreOfCandidate(i) > 0
    /\ result # <<>>
    /\ IsScored(result[1]) /\ result[1].relevance_score > 0

(***************************************************************************)
(* No content lost by chunk_text (checked under SpecChunk).                *)
(***************************************************************************)
\* the assignments of n sentences to m chunks that keep the sentences' order
Placements(n, m) ==
    {f \in [1..n -> 1..m] : \A a, b \in 1..n : a < b => f[a] <= f[b]}

\* every sentence lies in the text of a chunk, later sentences in no earlier chunk
InOrder(sentences, chunks) ==
    \E f \in Placements(Len(sentences), Len(chunks)) :
        \A n \in 1..Len(sentences) : Contains(chunks[f[n]].text, sentences[n])

\* the buffer left by the loop is the text of the last chunk
Flushed(run) ==
    Strip(run.current_chunk) # <<>> =>
        /\ run.chunks # <<>>
        /\ run.chunks[Len(run.chunks)].text = Strip(run.current_chunk)

\* C21: chunk_text loses no content: every sentence produced by the sentence
\* splitter appears in the text of at least one emitted chunk, the sentences
\* appear across the chunk sequence in their original order, and the final
\* non-empty buffer is always flushed.
C21_NoSentenceLost ==
    pc = "chunked" =>
        \A i \in 1..Len(runs) :
            /\ InOrder(SentencesOf(i), runs[i].chunks)
            /\ Flushed(runs[i])

\* two sentences split over two chunks by one closing, the second chunk opening
\* with text repeated from the first and flushed at the end
C21_Witness ==
    /\ pc = "chunked"
    /\ Len(runs) >= 1
    /\ Len(SentencesOf(1)) = 2
    /\ Len(runs[1].closes) = 1
    /\ runs[1].closes[1].overlap # <<>>
    /\ Len(runs[1].chunks) = 2
    /\ ~Contains(runs[1].chunks[1].text, SentencesOf(1)[2])
    /\ Contains(runs[1].chunks[2].text, SentencesOf(1)[2])
    /\ runs[1].chunks[2].text # SentencesOf(1)[2]
    /\ runs[1].chunks[2].text = Strip(runs[1].current_chunk)

(***************************************************************************)
(* Sources of an answer (checked under SpecAnswer).                        *)
(***************************************************************************)
\* every chunk stored under a document id carries that id as its file_id
ChunksCarryDocumentId ==
    \A i \in 1..Len(document_chunks) :
        \A k \in 1..Len(document_chunks[i].value) :
            PyEq(document_chunks[i].value[k].file_id, document_chunks[i].key)

\* C22: every chunk stored in the document store under document id d carries
\* file_id = d, and an answer built from chunks of stored documents lists one
\* source per returned chunk, so its sources are not empty.
C22_SourcePerReturnedChunk ==
    /\ ChunksCarryDocumentId
    /\ (reader.pc = "asked" /\ reader.success) =>
           /\ Len(reader.sources) = Len(result)
           /\ reader.sources # <<>>

====
